---- MODULE Spec2Model ----
(***************************************************************************)
(* Model of kasa/smartplug.py: the SmartPlug adapter over the SmartDevice   *)
(* base session.  One caller drives the adapter; every `await` of a         *)
(* coroutine is a step of its own, so the states between the remote call    *)
(* and the resynchronisation are visible.                                   *)
(*                                                                          *)
(* The base session (requires_update, _query_helper, update, sys_info) and  *)
(* the simulated device are not part of smartplug.py; they are modelled     *)
(* from the written contract of the base session.                           *)
(***************************************************************************)
EXTENDS Integers, Sequences, FiniteSets, TLC

\* ---------------------------------------------------------------- bounds
\* Integer arguments tried around both ends of the accepted range.
Margin == 1
\* Largest elapsed-on-seconds the device reports.
MaxOnTime == 1
\* Largest wall-clock reading handed to on_since.
MaxNow == 2

\* ------------------------------------------------------ program constants
\* `0 < value <= 100` of set_brightness.
MinExclusive == 0
MaxBrightness == 100

\* ------------------------------------------------------------ the inputs
IntInputs ==
    ((MinExclusive - Margin) .. (MinExclusive + Margin + 1))
        \cup ((MaxBrightness - Margin) .. (MaxBrightness + Margin))

\* A Python value handed to set_brightness: its type and its numeric value
\* (a float f is given by num = f, e.g. 50.0; a bool by 0/1; a str has none).
Values ==
    [type : {"int"}, num : IntInputs]
        \cup [type : {"bool"}, num : {0, 1}]
        \cup [type : {"float"}, num : {MinExclusive, 50}]
        \cup [type : {"str"}, num : {0}]

NoArg == [type |-> "none", num |-> 0]
IntArg(n) == [type |-> "int", num |-> n]
BoolArg(b) == [type |-> "bool", num |-> IF b THEN 1 ELSE 0]

\* --------------------------------------------------------- python helpers
\* bool(n) of a number.
PyBool(n) == n # 0
\* int(b) of a bool.
PyIntOfBool(b) == IF b THEN 1 ELSE 0
\* int(n) of a JSON number that is integral.
PyInt(n) == n
\* isinstance(value, int): bool is a subclass of int.
IsInstanceInt(value) == value.type \in {"int", "bool"}

\* ------------------------------------------------------------- the state
VARIABLES
    device,        \* the device's own system info (a mapping key -> number)
    sys_info,      \* the base session's cached info
    synchronized,  \* the base session has completed an update()
    pc,            \* where the caller is: "idle" or the await it is at
    op,            \* the operation invoked last (running iff pc # "idle")
    arg,           \* its argument
    result,        \* how it ended: returned value or raised error
    log,           \* remote operations issued by this invocation, in order
    pre,           \* device and cache as they were when it was invoked
    resynced       \* some update() has succeeded since construction

vars == <<device, sys_info, synchronized, pc, op, arg, result, log, pre, resynced>>

Returned(v) == [status |-> "returned", value |-> v]
Raised(e) == [status |-> "raised", value |-> e]
Running == [status |-> "running", value |-> "None"]

PlugInfo(r, l, t) ==
    [k \in {"relay_state", "led_off", "on_time"} |->
        IF k = "relay_state" THEN r ELSE IF k = "led_off" THEN l ELSE t]

DimmerInfo(r, l, t, b) ==
    [k \in {"relay_state", "led_off", "on_time", "brightness"} |->
        IF k = "relay_state" THEN r
        ELSE IF k = "led_off" THEN l
        ELSE IF k = "on_time" THEN t ELSE b]

EmptyInfo == [k \in {} |-> 0]

Init ==
    /\ device \in
          {PlugInfo(r, l, 0) : r \in {0, 1}, l \in {0, 1}}
             \cup {DimmerInfo(r, l, 0, 50) : r \in {0, 1}, l \in {0, 1}}
    /\ sys_info = EmptyInfo
    /\ synchronized = FALSE
    /\ pc = "idle"
    /\ op = "none"
    /\ arg = NoArg
    /\ result = Running
    /\ log = <<>>
    /\ pre = [device |-> device, sys_info |-> EmptyInfo]
    /\ resynced = FALSE

\* -------------------------------------------------------- the base session
\* What a device that honours the call does with it.
DeviceApply(dev, cmd, params) ==
    IF cmd = "set_relay_state" THEN [dev EXCEPT !["relay_state"] = params]
    ELSE IF cmd = "set_led_off" THEN [dev EXCEPT !["led_off"] = params]
    ELSE [dev EXCEPT !["brightness"] = params]

Call(target, cmd, key, sent) ==
    [kind |-> "call", target |-> target, cmd |-> cmd, key |-> key, sent |-> sent]

UpdateEvent ==
    [kind |-> "update", target |-> "", cmd |-> "", key |-> "", sent |-> NoArg]

\* await self._query_helper(target, cmd, {key: sent}): the call is issued;
\* either the device applies it and the coroutine goes on at `next`, or the
\* call raises and the error leaves the coroutine.
QueryHelper(target, cmd, key, sent, next, ok) ==
    /\ log' = Append(log, Call(target, cmd, key, sent))
    /\ IF ok
       THEN /\ device' = DeviceApply(device, cmd, sent.num)
            /\ pc' = next
            /\ result' = IF next = "idle" THEN Returned("None") ELSE result
       ELSE /\ device' = device
            /\ pc' = "idle"
            /\ result' = Raised("DeviceError")
    /\ UNCHANGED <<sys_info, synchronized, op, arg, pre, resynced>>

\* await self.update(): the cached info is replaced by the device's, or the
\* query raises and the cache is left as it was.
Update(next, ok) ==
    /\ log' = Append(log, UpdateEvent)
    /\ IF ok
       THEN /\ sys_info' = device
            /\ synchronized' = TRUE
            /\ resynced' = TRUE
            /\ pc' = next
            /\ result' = IF next = "idle" THEN Returned("None") ELSE result
       ELSE /\ UNCHANGED <<sys_info, synchronized, resynced>>
            /\ pc' = "idle"
            /\ result' = Raised("DeviceError")
    /\ UNCHANGED <<device, op, arg, pre>>

\* A coroutine is invoked: the bookkeeping of a new invocation.
Invoke(name, a) ==
    /\ pc = "idle"
    /\ op' = name
    /\ arg' = a
    /\ log' = <<>>
    /\ pre' = [device |-> device, sys_info |-> sys_info]
    /\ UNCHANGED <<device, sys_info, synchronized, resynced>>

\* ------------------------------------------------------------- accessors
is_dimmable ==
    IF ~synchronized THEN Raised("NotReady")
    ELSE Returned("brightness" \in DOMAIN sys_info)

brightness ==
    IF ~synchronized THEN Raised("NotReady")
    ELSE IF is_dimmable.status = "raised" THEN is_dimmable
    ELSE IF ~is_dimmable.value THEN Raised("Capability")
    ELSE Returned(PyInt(sys_info["brightness"]))

\* is_on without its requires_update guard: a default before the first update.
is_on_default ==
    IF ~synchronized THEN Returned(FALSE)
    ELSE Returned(PyBool(sys_info["relay_state"]))

is_on ==
    IF ~synchronized THEN Raised("NotReady")
    ELSE Returned(PyBool(sys_info["relay_state"]))

led ==
    IF ~synchronized THEN Raised("NotReady")
    ELSE Returned(PyBool(1 - sys_info["led_off"]))

on_since(now) ==
    IF ~synchronized THEN Raised("NotReady")
    ELSE Returned(now - sys_info["on_time"])

\* state_information that asks for the brightness of every device.
state_information_always_brightness(now) ==
    IF ~synchronized THEN Raised("NotReady")
    ELSE IF brightness.status = "raised" THEN brightness
    ELSE Returned([k \in {"LED state", "On since", "Brightness"} |->
             IF k = "LED state" THEN led.value
             ELSE IF k = "On since" THEN on_since(now).value
             ELSE brightness.value])

state_information(now) ==
    IF ~synchronized THEN Raised("NotReady")
    ELSE IF led.status = "raised" THEN led
    ELSE IF on_since(now).status = "raised" THEN on_since(now)
    ELSE IF is_dimmable.status = "raised" THEN is_dimmable
    ELSE IF is_dimmable.value
         THEN IF brightness.status = "raised" THEN brightness
              ELSE Returned([k \in {"LED state", "On since", "Brightness"} |->
                       IF k = "LED state" THEN led.value
                       ELSE IF k = "On since" THEN on_since(now).value
                       ELSE brightness.value])
         ELSE Returned([k \in {"LED state", "On since"} |->
                  IF k = "LED state" THEN led.value
                  ELSE on_since(now).value])

\* -------------------------------------------------------------- mutators
\* turn_on: the state sent, and where the coroutine goes after the call.
\* turn_on that sends the state of turn_off.
turn_on_state_off == 1 - 1
turn_on_state == 1
\* turn_on that returns to its caller without awaiting update().
turn_on_no_resync == IF op = "set_brightness" THEN "set_brightness_call" ELSE "idle"
turn_on_then == "turn_on_update"

\* turn_on returns to its caller: set_brightness awaits it, anyone else is
\* the outside caller.
turn_on_return == IF op = "set_brightness" THEN "set_brightness_call" ELSE "idle"

turn_on ==
    /\ Invoke("turn_on", NoArg)
    /\ pc' = "turn_on_call"
    /\ result' = Running

turn_on_call ==
    /\ pc = "turn_on_call"
    /\ \E ok \in BOOLEAN :
          QueryHelper("system", "set_relay_state", "state",
                      IntArg(turn_on_state), turn_on_then, ok)

turn_on_update ==
    /\ pc = "turn_on_update"
    /\ \E ok \in BOOLEAN : Update(turn_on_return, ok)

turn_off_state == 0
\* turn_off that returns without awaiting update().
turn_off_no_resync == "idle"
turn_off_then == "turn_off_update"

turn_off ==
    /\ Invoke("turn_off", NoArg)
    /\ pc' = "turn_off_call"
    /\ result' = Running

turn_off_call ==
    /\ pc = "turn_off_call"
    /\ \E ok \in BOOLEAN :
          QueryHelper("system", "set_relay_state", "state",
                      IntArg(turn_off_state), turn_off_then, ok)

turn_off_update ==
    /\ pc = "turn_off_update"
    /\ \E ok \in BOOLEAN : Update("idle", ok)

\* {"off": int(not state)}
\* set_led that sends the state as it is, not inverted.
set_led_off_not_inverted(state) == PyIntOfBool(state)
set_led_off(state) == PyIntOfBool(~state)
\* set_led that returns without awaiting update().
set_led_no_resync == "idle"
set_led_then == "set_led_update"

set_led ==
    /\ \E state \in BOOLEAN : Invoke("set_led", BoolArg(state))
    /\ pc' = "set_led_call"
    /\ result' = Running

set_led_call ==
    /\ pc = "set_led_call"
    /\ \E ok \in BOOLEAN :
          QueryHelper("system", "set_led_off", "off",
                      IntArg(set_led_off(PyBool(arg.num))), set_led_then, ok)

set_led_update ==
    /\ pc = "set_led_update"
    /\ \E ok \in BOOLEAN : Update("idle", ok)

\* The range check with 0 let through: `0 <= value <= 100`.
brightness_valid_zero(value) == MinExclusive <= value.num /\ value.num <= MaxBrightness
\* `0 < value <= 100`
brightness_valid(value) == MinExclusive < value.num /\ value.num <= MaxBrightness

\* set_brightness that validates the value before it asks for the capability.
set_brightness_guard_value_first(value) ==
    IF ~synchronized THEN "NotReady"
    ELSE IF ~IsInstanceInt(value) THEN "ValueError"
    ELSE IF ~brightness_valid(value) THEN "ValueError"
    ELSE IF ~is_dimmable.value THEN "Capability"
    ELSE "pass"

\* The synchronous head of set_brightness: the error it raises, or "pass".
set_brightness_guard(value) ==
    IF ~synchronized THEN "NotReady"
    ELSE IF ~is_dimmable.value THEN "Capability"
    ELSE IF ~IsInstanceInt(value) THEN "ValueError"
    ELSE IF brightness_valid(value) THEN "pass"
    ELSE "ValueError"

\* set_brightness that returns without awaiting update().
set_brightness_no_resync == "idle"
set_brightness_then == "set_brightness_update"

set_brightness ==
    \E value \in Values :
        /\ Invoke("set_brightness", value)
        /\ IF set_brightness_guard(value) = "pass"
           THEN /\ pc' = "turn_on_call"
                /\ result' = Running
           ELSE /\ pc' = "idle"
                /\ result' = Raised(set_brightness_guard(value))

set_brightness_call ==
    /\ pc = "set_brightness_call"
    /\ \E ok \in BOOLEAN :
          QueryHelper("smartlife.iot.dimmer", "set_brightness", "brightness",
                      arg, set_brightness_then, ok)

set_brightness_update ==
    /\ pc = "set_brightness_update"
    /\ \E ok \in BOOLEAN : Update("idle", ok)

\* ------------------------------------------------- reads by the caller
Read(name, a, value) ==
    /\ Invoke(name, a)
    /\ pc' = "idle"
    /\ result' = value

read_is_on == Read("is_on", NoArg, is_on)
read_is_dimmable == Read("is_dimmable", NoArg, is_dimmable)
read_brightness == Read("brightness", NoArg, brightness)
read_led == Read("led", NoArg, led)
read_on_since == \E now \in 0 .. MaxNow : Read("on_since", IntArg(now), on_since(now))
read_state_information ==
    \E now \in 0 .. MaxNow :
        Read("state_information", IntArg(now), state_information(now))

\* ------------------------------------------------------------ the device
\* The elapsed-on-seconds the device reports grows with time.
Tick ==
    /\ device["on_time"] < MaxOnTime
    /\ device' = [device EXCEPT !["on_time"] = @ + 1]
    /\ UNCHANGED <<sys_info, synchronized, pc, op, arg, result, log, pre, resynced>>

Next ==
    \/ turn_on
    \/ turn_on_call
    \/ turn_on_update
    \/ turn_off
    \/ turn_off_call
    \/ turn_off_update
    \/ set_led
    \/ set_led_call
    \/ set_led_update
    \/ set_brightness
    \/ set_brightness_call
    \/ set_brightness_update
    \/ read_is_on
    \/ read_is_dimmable
    \/ read_brightness
    \/ read_led
    \/ read_on_since
    \/ read_state_information
    \/ Tick

Spec == Init /\ [][Next]_vars

\* ======================================================================
\* The properties
\* ======================================================================
Mutators == {"turn_on", "turn_off", "set_led", "set_brightness"}
Accessors ==
    {"is_on", "is_dimmable", "brightness", "led", "on_since", "state_information"}

\* The invocation of `name` is over.
Done(name) == pc = "idle" /\ op = name
\* ... and it returned without raising.
Ok(name) == Done(name) /\ result.status = "returned"
\* ... or it raised `e`.
Failed(name, e) == Done(name) /\ result.status = "raised" /\ result.value = e

\* v is an integer as Python has it (a bool is one: True is 1, False is 0).
IsInteger(v) == v.type \in {"int", "bool"}
InRange(v) == v.num >= 1 /\ v.num <= 100

\* The adapter was synchronized / dimmable when the operation was invoked.
WasSynchronized == DOMAIN pre.sys_info # {}
WasDimmable == "brightness" \in DOMAIN pre.sys_info

PowerOnCall == Call("system", "set_relay_state", "state", IntArg(1))
PowerOffCall == Call("system", "set_relay_state", "state", IntArg(0))
BrightnessCall(v) == Call("smartlife.iot.dimmer", "set_brightness", "brightness", v)
LedCall(off) == Call("system", "set_led_off", "off", IntArg(off))

IsPrefix(s, t) == Len(s) <= Len(t) /\ \A i \in 1 .. Len(s) : s[i] = t[i]

IsNotReady(r) == r.status = "raised" /\ r.value = "NotReady"

\* C1: set_brightness(v), v an integer in 1..100, on a synchronized dimmable
\* adapter is never rejected; what it issues is at every moment a prefix of
\* <power-on call, resync, brightness call carrying v, resync>, and when it
\* returns it has issued all four: one brightness call carrying v, after a
\* power-on call, followed by exactly one resync.
C1_SetBrightnessSequence ==
    (op = "set_brightness" /\ WasDimmable /\ IsInteger(arg) /\ InRange(arg)) =>
        /\ IsPrefix(log, <<PowerOnCall, UpdateEvent, BrightnessCall(arg), UpdateEvent>>)
        /\ result.status = "raised" => result.value = "DeviceError"
        /\ Ok("set_brightness") => Len(log) = 4

C1_Witness ==
    /\ Ok("set_brightness")
    /\ arg = IntArg(100)
    /\ pre.device["relay_state"] = 0
    /\ Len(log) = 4
    /\ device["brightness"] = 100

\* C2 (as stated): on a synchronized adapter, set_brightness(v) with v not an
\* integer or outside 1..100 issues no remote call and raises a validation
\* error.
C2_AsStated ==
    (op = "set_brightness" /\ WasSynchronized /\ (~IsInteger(arg) \/ ~InRange(arg))) =>
        /\ pc = "idle"
        /\ log = <<>>
        /\ result.status = "raised" /\ result.value = "ValueError"

\* C2 (amended): on a synchronized adapter whose cached info has a
\* "brightness" key, set_brightness(v) with v not an integer or outside 1..100
\* issues no remote call and raises a validation error; without that key the
\* error is the capability error, still with no remote call.
C2_InvalidValueRejected ==
    (op = "set_brightness" /\ WasSynchronized /\ (~IsInteger(arg) \/ ~InRange(arg))) =>
        /\ pc = "idle"
        /\ log = <<>>
        /\ result.status = "raised"
        /\ result.value = IF WasDimmable THEN "ValueError" ELSE "Capability"

C2_Witness ==
    /\ Failed("set_brightness", "ValueError")
    /\ arg = IntArg(0)
    /\ WasDimmable
    /\ log = <<>>

SameButOnTime(d, e) ==
    /\ DOMAIN d = DOMAIN e
    /\ \A k \in DOMAIN d \ {"on_time"} : d[k] = e[k]

\* C3: with no "brightness" key in the cached info, set_brightness(v) raises
\* the capability error for every v, issues no remote call and leaves the
\* relay state, the device brightness and the cached info as they were.
C3_NotDimmableRejected ==
    (op = "set_brightness" /\ WasSynchronized /\ ~WasDimmable) =>
        /\ pc = "idle"
        /\ result.status = "raised" /\ result.value = "Capability"
        /\ log = <<>>
        /\ SameButOnTime(device, pre.device)
        /\ sys_info = pre.sys_info

C3_Witness ==
    /\ Failed("set_brightness", "Capability")
    /\ arg = IntArg(0)
    /\ ~WasDimmable

\* C4: until an update() has succeeded every accessor raises the not-ready
\* error; an accessor returns a value only after one has succeeded.
C4_NotReadyBeforeResync ==
    /\ ~resynced =>
          /\ IsNotReady(is_on) /\ IsNotReady(is_dimmable)
          /\ IsNotReady(brightness) /\ IsNotReady(led)
          /\ \A now \in 0 .. MaxNow :
                IsNotReady(on_since(now)) /\ IsNotReady(state_information(now))
          /\ Done("is_on") \/ Done("is_dimmable") \/ Done("brightness")
                \/ Done("led") \/ Done("on_since") \/ Done("state_information")
                => IsNotReady(result)
    /\ is_on.status = "returned" \/ is_dimmable.status = "returned"
          \/ brightness.status = "returned" \/ led.status = "returned"
          \/ (\E now \in 0 .. MaxNow :
                 on_since(now).status = "returned"
                     \/ state_information(now).status = "returned")
          \/ (op \in Accessors /\ result.status = "returned")
          => resynced

C4_Witness ==
    /\ Done("state_information")
    /\ IsNotReady(result)
    /\ ~resynced
    /\ device["relay_state"] = 1

IsPair(s, i) == s[i].kind = "call" /\ s[i + 1].kind = "update"

\* C5 (as stated): every mutator that returns has issued one remote call and
\* then one resync.
C5_AsStated ==
    (op \in Mutators /\ pc = "idle" /\ result.status = "returned") =>
        Len(log) = 2 /\ IsPair(log, 1)

\* C5 (amended): turn_on, turn_off and set_led that return have issued one
\* remote call and then one resync; set_brightness that returns has issued
\* two remote calls, each followed at once by a resync; no step other than a
\* resync changes the cached info, and a resync sets it to the device's info.
C5_WritePolicy ==
    /\ [](/\ Ok("turn_on") \/ Ok("turn_off") \/ Ok("set_led") =>
                Len(log) = 2 /\ IsPair(log, 1)
          /\ Ok("set_brightness") =>
                Len(log) = 4 /\ IsPair(log, 1) /\ IsPair(log, 3))
    /\ [][sys_info' # sys_info =>
             /\ pc \in {"turn_on_update", "turn_off_update", "set_led_update",
                        "set_brightness_update"}
             /\ sys_info' = device]_vars

C5_Witness ==
    /\ Ok("set_brightness")
    /\ Len(log) = 4
    /\ sys_info # pre.sys_info

\* C6: turn_on sends state 1 and turn_off state 0; after a turn_on that
\* returned, is_on returns true, and after a turn_off that returned, false,
\* whatever the relay and the cache were before (never synchronized too).
C6_RelayReflected ==
    /\ (op = "turn_on" /\ Len(log) >= 1) => log[1] = PowerOnCall
    /\ (op = "turn_off" /\ Len(log) >= 1) => log[1] = PowerOffCall
    /\ Ok("turn_on") => is_on.status = "returned" /\ is_on.value = TRUE
    /\ Ok("turn_off") => is_on.status = "returned" /\ is_on.value = FALSE

C6_Witness ==
    /\ Ok("turn_on")
    /\ ~WasSynchronized
    /\ pre.device["relay_state"] = 0
    /\ is_on.status = "returned"

\* C7: set_led(s) sends off = 1 for s false and off = 0 for s true; led is
\* the negation of the cached "led_off" for 0 and for 1; after a set_led(s)
\* that returned, led returns s.
C7_LedInverted ==
    /\ (op = "set_led" /\ Len(log) >= 1) =>
          log[1] = LedCall(IF arg.num = 1 THEN 0 ELSE 1)
    /\ synchronized =>
          /\ led.status = "returned"
          /\ sys_info["led_off"] = 1 => led.value = FALSE
          /\ sys_info["led_off"] = 0 => led.value = TRUE
    /\ Ok("set_led") => led.status = "returned" /\ led.value = (arg.num = 1)

C7_Witness ==
    /\ Ok("set_led")
    /\ arg = BoolArg(TRUE)
    /\ pre.device["led_off"] = 1
    /\ led.status = "returned"

\* C8: on a synchronized adapter state_information() returns a mapping with
\* the keys "LED state" and "On since", and with "Brightness" exactly when
\* the cached info has a "brightness" key (is_dimmable); it never raises the
\* capability error.
C8_StateInformationKeys ==
    /\ synchronized =>
          \A now \in 0 .. MaxNow :
              /\ state_information(now).status = "returned"
              /\ {"LED state", "On since"} \subseteq DOMAIN state_information(now).value
              /\ "Brightness" \in DOMAIN state_information(now).value
                    <=> "brightness" \in DOMAIN sys_info
              /\ "Brightness" \in DOMAIN state_information(now).value
                    <=> is_dimmable.value
    /\ (Done("state_information") /\ result.status = "raised") => IsNotReady(result)

C8_Witness ==
    /\ Done("state_information")
    /\ result.status = "returned"
    /\ "Brightness" \notin DOMAIN result.value
    /\ "LED state" \in DOMAIN result.value

\* C9: when the last mutator invoked has returned, the adapter is
\* synchronized and the cached relay state, led-off flag and brightness are
\* the device's, so the accessors report the device's state; also when the
\* mutator was the first operation on a fresh adapter.
C9_CacheMatchesDevice ==
    (op \in Mutators /\ pc = "idle" /\ result.status = "returned") =>
        /\ synchronized
        /\ DOMAIN sys_info = DOMAIN device
        /\ \A k \in DOMAIN device \ {"on_time"} : sys_info[k] = device[k]
        /\ is_on.status = "returned" /\ is_on.value = (device["relay_state"] = 1)
        /\ led.status = "returned" /\ led.value = (device["led_off"] = 0)
        /\ "brightness" \in DOMAIN device =>
              brightness.status = "returned" /\ brightness.value = device["brightness"]

C9_Witness ==
    /\ Ok("set_led")
    /\ ~WasSynchronized
    /\ pre.device["led_off"] = 0
    /\ device["led_off"] = 1

\* C10: when set_brightness ends in a device error raised by the brightness
\* call, nothing was issued after that call, the relay is on in the device
\* and in the cached info, and the device brightness is what it was; when
\* the error was raised by the power-on call, that call is all that was
\* issued.
C10_NoRollback ==
    (Failed("set_brightness", "DeviceError") /\ Len(log) >= 1) =>
        /\ log[Len(log)].cmd = "set_brightness" =>
              /\ log = <<PowerOnCall, UpdateEvent, BrightnessCall(arg)>>
              /\ device["relay_state"] = 1
              /\ sys_info["relay_state"] = 1
              /\ device["brightness"] = pre.device["brightness"]
        /\ log[Len(log)].cmd = "set_relay_state" =>
              /\ log = <<PowerOnCall>>
              /\ device["brightness"] = pre.device["brightness"]
              /\ sys_info = pre.sys_info

C10_Witness ==
    /\ Failed("set_brightness", "DeviceError")
    /\ Len(log) = 3
    /\ log[3].cmd = "set_brightness"
    /\ pre.device["relay_state"] = 0
    /\ device["relay_state"] = 1
    /\ arg.num # device["brightness"]

====
